---- MODULE Spec2Model ----
(***************************************************************************)
(* A model of redis-dev-server (src/index.js): the incremental frame       *)
(* decoder, the command dispatcher and its handlers, the reply encoder,    *)
(* the keyspace with its dirty flag, the expiry sweep and the snapshot     *)
(* save/load that replays the server's own protocol.                       *)
(*                                                                         *)
(* Bytes are their integer codes; text and buffers are sequences of bytes. *)
(* A data handler is one action: parse, and every dispatch it makes, run   *)
(* synchronously inside it, as in the single-threaded event loop.          *)
(***************************************************************************)
EXTENDS Integers, Sequences, FiniteSets, TLC

VARIABLES
    data,      \* server.data: the Map, as a sequence of entries in insertion order
    changed,   \* server.data.changed: the dirty flag
    now,       \* Date.now()
    running,   \* FALSE once an exception escaped an event handler (process ended)
    conns,     \* per connection: the RedisConnection decoder fields
    file,      \* bytes of the snapshot file
    last,      \* what the last event handler did (dispatch trace, bytes written)
    net,       \* bytes a client still has to deliver, and those delivered
    boot,      \* the loader: snapshot bytes not yet replayed, dump/load bookkeeping
    scan,      \* a client iterating SCAN: cursor, keys collected so far
    calls      \* the SCAN calls that client has made in its iteration

vars == <<data, changed, now, running, conns, file, last, net, boot, scan, calls>>

----------------------------------------------------------------------------
(* Protocol bytes (src/index.js:7-12) *)

CR == 13
LF == 10
BUFFER == 36
ARRAY == 42
SIMPLE == 43
ERROR == 45
NUMBER == 58

\* the value `Buffer` (the class) that parse stores in this.type while it
\* copies a bulk body; any value that is no byte
BufferMode == 0 - 1

\* JavaScript's NaN, as a number no input of the model reaches
NaN == 0 - 1000000

CRLF == <<CR, LF>>
TypeBytes == {ARRAY, BUFFER, NUMBER, SIMPLE, ERROR}

None == <<>>
Some(x) == <<x>>

Min(a, b) == IF a < b THEN a ELSE b

----------------------------------------------------------------------------
(* Text helpers *)

IsDigit(b) == b >= 48 /\ b <= 57

RECURSIVE DigitsVal(_, _, _)
DigitsVal(s, i, acc) ==
    IF i > Len(s) \/ ~IsDigit(s[i]) THEN acc
    ELSE DigitsVal(s, i + 1, acc * 10 + (s[i] - 48))

\* parseInt(text, 10): optional sign, then the leading run of digits; NaN
\* when there is none
ParseInt(s) ==
    LET signed == Len(s) >= 1 /\ s[1] \in {43, 45}
        st == IF signed THEN 2 ELSE 1
    IN  IF st > Len(s) \/ ~IsDigit(s[st]) THEN NaN
        ELSE IF signed /\ s[1] = 45 THEN 0 - DigitsVal(s, st, 0)
        ELSE DigitsVal(s, st, 0)

RECURSIVE NatStr(_)
NatStr(n) == IF n < 10 THEN <<48 + n>> ELSE NatStr(n \div 10) \o <<48 + (n % 10)>>

\* a number converted to text, as string concatenation does
NumStr(n) ==
    IF n = NaN THEN <<78, 97, 78>>
    ELSE IF n < 0 THEN <<45>> \o NatStr(0 - n)
    ELSE NatStr(n)

Upper(b) == IF b >= 97 /\ b <= 122 THEN b - 32 ELSE b
Lower(b) == IF b >= 65 /\ b <= 90 THEN b + 32 ELSE b
ToUpperCase(s) == [i \in 1..Len(s) |-> Upper(s[i])]
ToLowerCase(s) == [i \in 1..Len(s) |-> Lower(s[i])]

\* arithmetic on JavaScript numbers: NaN is absorbing
Plus(a, b) == IF a = NaN \/ b = NaN THEN NaN ELSE a + b
Times(a, b) == IF a = NaN \/ b = NaN THEN NaN ELSE a * b

----------------------------------------------------------------------------
(* JavaScript values that travel through the decoder and the encoder *)

VBuf(b) == [t |-> "buf", b |-> b, n |-> 0, a |-> <<>>]       \* a Buffer
VStr(b) == [t |-> "str", b |-> b, n |-> 0, a |-> <<>>]       \* a string
VNum(n) == [t |-> "num", b |-> <<>>, n |-> n, a |-> <<>>]    \* a number
VArr(a) == [t |-> "arr", b |-> <<>>, n |-> 0, a |-> a]       \* an Array
VNull == [t |-> "null", b |-> <<>>, n |-> 0, a |-> <<>>]
VUndef == [t |-> "undef", b |-> <<>>, n |-> 0, a |-> <<>>]
\* an error line written by error(): not a value, but recorded as a reply
VErr(b) == [t |-> "err", b |-> b, n |-> 0, a |-> <<>>]

\* !val
Falsy(v) ==
    \/ v.t \in {"null", "undef"}
    \/ v.t = "num" /\ v.n \in {0, NaN}
    \/ v.t = "str" /\ v.b = <<>>

\* string(val) (line 14): Ok is FALSE where val.toString throws a TypeError
StringOk(v) == v.t \notin {"null", "undef"}
String(v) ==
    CASE v.t \in {"buf", "str"} -> v.b
      [] v.t = "num" -> NumStr(v.n)
      [] OTHER -> <<>>

\* number(val) (line 15)
Number(v) ==
    CASE v.t = "num" -> v.n
      [] v.t \in {"buf", "str"} -> ParseInt(v.b)
      [] OTHER -> NaN

\* summary(val) (line 16): null and undefined have no .length (TypeError)
SummaryOk(v) == v.t \notin {"null", "undef"}
Summary(v) ==
    LET s == String(v)
    IN  IF v.t \in {"buf", "str"} /\ Len(s) > 20
        THEN SubSeq(s, 1, 20) \o <<46, 46, 46>>
        ELSE s

----------------------------------------------------------------------------
(* Reply encoder: respond (lines 174-193) *)

RECURSIVE Encode(_)
Encode(v) ==
    CASE v.t = "arr" ->
            LET RECURSIVE items(_)
                items(i) == IF i > Len(v.a) THEN <<>>
                            ELSE Encode(v.a[i]) \o items(i + 1)
            IN  <<ARRAY>> \o NumStr(Len(v.a)) \o CRLF \o items(1)
      [] v.t = "buf" -> <<BUFFER>> \o NumStr(Len(v.b)) \o CRLF \o v.b \o CRLF
      [] v.t = "str" -> <<SIMPLE>> \o v.b \o CRLF
      [] v.t = "num" -> <<NUMBER>> \o NumStr(v.n) \o CRLF
      [] v.t = "err" -> <<ERROR>> \o v.b \o CRLF
      [] OTHER -> <<BUFFER, 45, 49>> \o CRLF

----------------------------------------------------------------------------
(* Words of the protocol, as bytes *)

wOK == <<79, 75>>
wPONG == <<80, 79, 78, 71>>
wFLUSHDB == <<70, 76, 85, 83, 72, 68, 66>>
wSET == <<83, 69, 84>>
wEX == <<69, 88>>
wPX == <<80, 88>>
wNX == <<78, 88>>
wXX == <<88, 88>>
wCOUNT == <<67, 79, 85, 78, 84>>
wMATCH == <<77, 65, 84, 67, 72>>
wSETNAME == <<83, 69, 84, 78, 65, 77, 69>>
wGETNAME == <<71, 69, 84, 78, 65, 77, 69>>
wString == <<115, 116, 114, 105, 110, 103>>
wUnknownCommand == <<85, 78, 75, 78, 79, 87, 78, 32, 67, 79, 77, 77, 65, 78, 68, 32>>
wSelectError == <<83, 69, 76, 69, 67, 84, 32, 99, 97, 110, 32, 111, 110, 108, 121, 32, 115, 101, 108, 101, 99, 116, 32, 100, 98, 32, 105, 110, 100, 101, 120, 32, 48>>
wUnknownSet == <<85, 110, 107, 110, 111, 119, 110, 32, 83, 69, 84, 32, 97, 114, 103, 117, 109, 101, 110, 116, 58, 32>>
wUnknownScan == <<85, 110, 107, 110, 111, 119, 110, 32, 83, 67, 65, 78, 32, 97, 114, 103, 117, 109, 101, 110, 116, 58, 32>>
wKeysError == <<75, 69, 89, 83, 32, 114, 101, 113, 117, 105, 114, 101, 115, 32, 112, 97, 116, 116, 101, 114, 110>>
wScanError == <<83, 67, 65, 78, 32, 114, 101, 113, 117, 105, 114, 101, 115, 32, 99, 117, 114, 115, 111, 114>>
wClientError == <<85, 110, 115, 117, 112, 112, 111, 114, 116, 101, 100, 32, 67, 76, 73, 69, 78, 84, 32, 99, 111, 109, 109, 97, 110, 100, 58, 32>>

\* the methods of RedisConnection whose name starts with "run": the text
\* after "run" and the method it names ("run" itself answers the empty text)
Methods == <<
    <<<<>>, "run">>,
    <<<<73, 110, 102, 111>>, "runInfo">>,
    <<<<69, 99, 104, 111>>, "runEcho">>,
    <<<<83, 97, 118, 101>>, "runSave">>,
    <<<<83, 101, 108, 101, 99, 116>>, "runSelect">>,
    <<<<70, 108, 117, 115, 104, 97, 108, 108>>, "runFlushall">>,
    <<<<70, 108, 117, 115, 104, 100, 98>>, "runFlushdb">>,
    <<<<68, 98, 115, 105, 122, 101>>, "runDbsize">>,
    <<<<67, 108, 105, 101, 110, 116>>, "runClient">>,
    <<<<80, 105, 110, 103>>, "runPing">>,
    <<<<69, 120, 105, 115, 116, 115>>, "runExists">>,
    <<<<84, 121, 112, 101>>, "runType">>,
    <<<<71, 101, 116>>, "runGet">>,
    <<<<77, 103, 101, 116>>, "runMget">>,
    <<<<83, 101, 116, 101, 120>>, "runSetex">>,
    <<<<80, 115, 101, 116, 101, 120>>, "runPsetex">>,
    <<<<83, 101, 116>>, "runSet">>,
    <<<<77, 115, 101, 116>>, "runMset">>,
    <<<<77, 115, 101, 116, 110, 120>>, "runMsetnx">>,
    <<<<68, 101, 108>>, "runDel">>,
    <<<<75, 101, 121, 115>>, "runKeys">>,
    <<<<83, 99, 97, 110>>, "runScan">>,
    <<<<69, 120, 112, 105, 114, 101, 97, 116>>, "runExpireat">>,
    <<<<69, 120, 112, 105, 114, 101>>, "runExpire">>,
    <<<<80, 101, 120, 112, 105, 114, 101>>, "runPexpire">>,
    <<<<84, 116, 108>>, "runTtl">>,
    <<<<80, 116, 116, 108>>, "runPttl">>,
    <<<<68, 117, 109, 112, 97, 108, 108>>, "runDumpall">>,
    <<<<81, 117, 105, 116>>, "runQuit">>
>>

\* this[method] (line 169): "" when the connection has no such method
MethodOf(name) ==
    IF \E i \in 1..Len(Methods) : Methods[i][1] = name
    THEN Methods[CHOOSE i \in 1..Len(Methods) : Methods[i][1] = name][2]
    ELSE ""

----------------------------------------------------------------------------
(* The keyspace: a Map, iterated in insertion order *)

Has(d, k) == \E i \in 1..Len(d) : d[i].k = k
IndexOf(d, k) == CHOOSE i \in 1..Len(d) : d[i].k = k
Get(d, k) == d[IndexOf(d, k)]
Keys(d) == [i \in 1..Len(d) |-> d[i].k]

\* Map.set: an existing key keeps its place
MapSet(d, k, v, e) ==
    IF Has(d, k) THEN [d EXCEPT ![IndexOf(d, k)] = [k |-> k, v |-> v, e |-> e]]
    ELSE Append(d, [k |-> k, v |-> v, e |-> e])

MapDelete(d, k) ==
    IF Has(d, k)
    THEN SubSeq(d, 1, IndexOf(d, k) - 1) \o SubSeq(d, IndexOf(d, k) + 1, Len(d))
    ELSE d

\* data.e as a condition: null, 0 and NaN are falsy
ExpirySet(e) == e # None /\ e[1] \notin {0, NaN}

----------------------------------------------------------------------------
(* A connection, and the state an event handler works on *)

ClientName == <<84, 67, 80>>

NewConn(name, sink) ==
    [ type   |-> 0,       \* this.type: 0 for null, a type byte, or BufferMode
      line   |-> None,    \* this.line: null or a Buffer
      length |-> None,    \* this.length
      stack  |-> <<>>,    \* this.stack: arrays in progress, [size, a]
      name   |-> name,    \* this.name
      sink   |-> sink,    \* this.outStream is set
      ended  |-> FALSE ]  \* end() was called on the streams (runQuit)

\* the state one event handler reads and writes while it runs
Handler(c, d, ch, t) ==
    [ c |-> c, data |-> d, changed |-> ch, now |-> t,
      out     |-> <<>>,   \* bytes written to the sink
      replies |-> <<>>,   \* the values given to respond/error
      trace   |-> <<>>,   \* one record per frame handed to run
      saves   |-> 0,      \* server.save() calls made
      thrown  |-> FALSE,  \* an exception is propagating
      hung    |-> FALSE ] \* the loop of parse does not end

Throw(S) == [S EXCEPT !.thrown = TRUE]

\* write (lines 195-198)
Write(S, bytes) ==
    IF S.c.sink /\ ~S.c.ended THEN [S EXCEPT !.out = @ \o bytes] ELSE S

\* respond (lines 174-193)
Respond(S, v) == [Write(S, Encode(v)) EXCEPT !.replies = Append(@, v)]

\* error (lines 200-203)
Error(S, line) == [Write(S, Encode(VErr(line))) EXCEPT !.replies = Append(@, VErr(line))]

Arg(a, i) == IF i <= Len(a) THEN a[i] ELSE VUndef
Rest(a, i) == IF i <= Len(a) THEN SubSeq(a, i, Len(a)) ELSE <<>>

----------------------------------------------------------------------------
(* Key patterns: pattern (lines 17-25) and RegExp.test *)

\* "." of a regular expression: any character but a line terminator
Dot(b) == b \notin {CR, LF}

\* The expression pattern(p) builds, applied to key from its start to its end:
\* "*" became ".*", "?" became ".?", and the characters it escapes stand for
\* themselves. Patterns are made of "*", "?" and characters that are no
\* operator of regular expressions.
RECURSIVE Matches(_, _, _, _)
Matches(p, i, key, j) ==
    IF i > Len(p) THEN j > Len(key)
    ELSE IF p[i] = 42 THEN
        \/ Matches(p, i + 1, key, j)
        \/ j <= Len(key) /\ Dot(key[j]) /\ Matches(p, i, key, j + 1)
    ELSE IF p[i] = 63 THEN
        \/ Matches(p, i + 1, key, j)
        \/ j <= Len(key) /\ Dot(key[j]) /\ Matches(p, i + 1, key, j + 1)
    ELSE j <= Len(key) /\ key[j] = p[i] /\ Matches(p, i + 1, key, j + 1)

Test(p, key) == Matches(p, 1, key, 1)

RECURSIVE Filter(_, _)
Filter(keys, p) ==
    IF keys = <<>> THEN <<>>
    ELSE (IF Test(p, Head(keys)) THEN <<Head(keys)>> ELSE <<>>) \o Filter(Tail(keys), p)

\* Array.slice(start, end): NaN counts as 0, a negative index counts from the end
Slice(s, start, end) ==
    LET rel(x) == IF x = NaN THEN 0
                  ELSE IF x < 0 THEN (IF Len(s) + x < 0 THEN 0 ELSE Len(s) + x)
                  ELSE Min(x, Len(s))
    IN  SubSeq(s, rel(start) + 1, rel(end))

----------------------------------------------------------------------------
(* Command handlers (lines 215-462). Each takes the handler state and the  *)
(* arguments after the command name and gives the handler state it leaves. *)

RunInfo(S, a) == Respond(S, VStr(wOK))

RunEcho(S, a) == Respond(S, Arg(a, 1))

\* runSave (lines 223-225): server.save(), and no reply. save (lines 505-516)
\* returns at once when the flag is clear; else it clears the flag and starts
\* a SAVER connection, whose DUMPALL runs once this handler has returned.
RunSave(S, a) ==
    IF S.changed THEN [S EXCEPT !.changed = FALSE, !.saves = @ + 1] ELSE S

RunSelect(S, a) ==
    IF Number(Arg(a, 1)) # 0 THEN Error(S, wSelectError)
    ELSE Respond(S, VStr(wOK))

\* runFlushall (lines 233-237): the Map is cleared; data.changed is not written
RunFlushall(S, a) == Respond([S EXCEPT !.data = <<>>], VStr(wOK))

RunFlushdb(S, a) == RunFlushall(S, a)

\* runDbsize (lines 243-246): a Map has no length, respond gets undefined
RunDbsize(S, a) == Respond(S, VUndef)

RunClient(S, a) ==
    IF ~SummaryOk(Arg(a, 1)) THEN Throw(S)
    ELSE LET command == ToUpperCase(Summary(Arg(a, 1)))
         IN  IF command = wSETNAME THEN
                 IF ~StringOk(Arg(a, 2)) THEN Throw(S)
                 ELSE Respond([S EXCEPT !.c.name = String(Arg(a, 2))], VStr(wOK))
             ELSE IF command = wGETNAME THEN Respond(S, VStr(S.c.name))
             ELSE Error(S, wClientError \o command)

RunPing(S, a) == Respond(S, VStr(wPONG))

RunExists(S, a) ==
    IF ~StringOk(Arg(a, 1)) THEN Throw(S)
    ELSE IF Has(S.data, String(Arg(a, 1))) THEN Respond(S, VNum(1))
    ELSE Respond(S, VNum(0))

RunType(S, a) ==
    IF ~StringOk(Arg(a, 1)) THEN Throw(S)
    ELSE IF ~Has(S.data, String(Arg(a, 1))) THEN Respond(S, VStr(<<>>))
    ELSE Respond(S, VStr(wString))

RunGet(S, a) ==
    IF ~StringOk(Arg(a, 1)) THEN Throw(S)
    ELSE IF ~Has(S.data, String(Arg(a, 1))) THEN Respond(S, VNull)
    ELSE Respond(S, Get(S.data, String(Arg(a, 1))).v)

RunMget(S, a) ==
    IF \E i \in 1..Len(a) : ~StringOk(a[i]) THEN Throw(S)
    ELSE Respond(S, VArr([i \in 1..Len(a) |->
            IF Has(S.data, String(a[i])) THEN Get(S.data, String(a[i])).v ELSE VNull]))

\* The option loop of runSet (lines 314-321). The else of line 319 belongs to
\* the if of line 318, so the whole of lines 319-320 is the else branch of
\* "if (this.data.has(key))" under arg === 'NX': there arg is never 'XX'.
\* Nothing is left for a word that is not EX, PX or NX.
RECURSIVE SetOptions(_, _, _, _, _, _)
SetOptions(d, key, o, i, e, t) ==
    IF i > Len(o) THEN [abort |-> FALSE, e |-> e]
    ELSE LET arg == ToUpperCase(Summary(o[i]))
         IN  IF arg = wEX
             THEN SetOptions(d, key, o, i + 2,
                             Some(Plus(t, Times(Number(Arg(o, i + 1)), 1000))), t)
             ELSE IF arg = wPX
             THEN SetOptions(d, key, o, i + 2, Some(Plus(t, Number(Arg(o, i + 1)))), t)
             ELSE IF arg = wNX
             THEN IF Has(d, key) THEN [abort |-> TRUE, e |-> e]
                  ELSE SetOptions(d, key, o, i + 1, e, t)
             ELSE SetOptions(d, key, o, i + 1, e, t)

\* runSet (lines 310-325)
RunSet(S, a) ==
    LET key == Arg(a, 1)
        value == Arg(a, 2)
        o == Rest(a, 3)
    IN  IF ~StringOk(key) \/ ~SummaryOk(value) \/ (\E i \in 1..Len(o) : ~StringOk(o[i]))
        THEN Throw(S)
        ELSE LET r == SetOptions(S.data, String(key), o, 1, None, S.now)
             IN  IF r.abort THEN Respond(S, VNull)
                 ELSE Respond([S EXCEPT !.data = MapSet(@, String(key), value, r.e),
                                        !.changed = TRUE], VStr(wOK))

\* runSetex, runPsetex (lines 300-308)
RunSetex(S, a) ==
    IF ~StringOk(Arg(a, 1)) THEN Throw(S)
    ELSE RunSet(S, <<VStr(String(Arg(a, 1))), Arg(a, 3), VStr(wEX), Arg(a, 2)>>)

RunPsetex(S, a) ==
    IF ~StringOk(Arg(a, 1)) THEN Throw(S)
    ELSE RunSet(S, <<VStr(String(Arg(a, 1))), Arg(a, 3), VStr(wPX), Arg(a, 2)>>)

\* the pairs of a list of arguments, stored in order
RECURSIVE SetPairs(_, _, _)
SetPairs(d, a, i) ==
    IF i > Len(a) THEN d
    ELSE SetPairs(MapSet(d, String(a[i]), Arg(a, i + 1), None), a, i + 2)

\* the keys of a list of pairs: the arguments at the odd places
PairKeys(a) == {i \in 1..Len(a) : i % 2 = 1}

\* runMset (lines 327-337)
RunMset(S, a) ==
    IF (\E i \in 1..Len(a) : ~SummaryOk(a[i])) THEN Throw(S)
    ELSE Respond([S EXCEPT !.data = SetPairs(@, a, 1), !.changed = TRUE], VStr(wOK))

\* A runMsetnx with one loop, which stores each pair as soon as it has found
\* its key absent and replies 0 at the first key present: what lines 339-355
\* would be without the list "set". C8 must tell it from RunMsetnx.
RECURSIVE SetPairsWhileAbsent(_, _, _, _)
SetPairsWhileAbsent(d0, d, a, i) ==
    IF i > Len(a) \/ Has(d0, String(a[i])) THEN d
    ELSE SetPairsWhileAbsent(d0, MapSet(d, String(a[i]), Arg(a, i + 1), None), a, i + 2)

RunMsetnxEager(S, a) ==
    IF (\E i \in 1..Len(a) : ~SummaryOk(a[i])) THEN Throw(S)
    ELSE IF \E i \in PairKeys(a) : Has(S.data, String(a[i]))
         THEN Respond([S EXCEPT !.data = SetPairsWhileAbsent(S.data, @, a, 1)], VNum(0))
    ELSE Respond([S EXCEPT !.data = SetPairs(@, a, 1), !.changed = TRUE], VNum(1))

\* runMsetnx (lines 339-355): the first loop only looks, the second only writes
RunMsetnx(S, a) ==
    IF (\E i \in 1..Len(a) : ~SummaryOk(a[i])) THEN Throw(S)
    ELSE IF \E i \in PairKeys(a) : Has(S.data, String(a[i])) THEN Respond(S, VNum(0))
    ELSE Respond([S EXCEPT !.data = SetPairs(@, a, 1), !.changed = TRUE], VNum(1))

RECURSIVE DeleteAll(_, _)
DeleteAll(d, keys) ==
    IF keys = <<>> THEN d ELSE DeleteAll(MapDelete(d, Head(keys)), Tail(keys))

\* runDel (lines 357-364): the reply is the length of the filtered argument list
RunDel(S, a) ==
    IF \E i \in 1..Len(a) : ~StringOk(a[i]) THEN Throw(S)
    ELSE LET keys == SelectSeq([i \in 1..Len(a) |-> String(a[i])],
                               LAMBDA k : Has(S.data, k))
         IN  Respond([S EXCEPT !.data = DeleteAll(@, keys), !.changed = TRUE],
                     VNum(Len(keys)))

StrValues(keys) == [i \in 1..Len(keys) |-> VStr(keys[i])]

\* runKeys (lines 366-373)
RunKeys(S, a) ==
    IF Falsy(Arg(a, 1)) THEN Error(S, wKeysError)
    ELSE Respond(S, VArr(StrValues(Filter(Keys(S.data), String(Arg(a, 1))))))

\* The option loop of runScan (lines 381-386)
RECURSIVE ScanOptions(_, _, _, _)
ScanOptions(o, i, count, match) ==
    IF i > Len(o) THEN [bad |-> None, thrown |-> FALSE, count |-> count, match |-> match]
    ELSE LET arg == ToUpperCase(Summary(o[i]))
         IN  IF arg = wCOUNT THEN ScanOptions(o, i + 2, Number(Arg(o, i + 1)), match)
             ELSE IF arg = wMATCH
             THEN IF ~StringOk(Arg(o, i + 1))
                  THEN [bad |-> None, thrown |-> TRUE, count |-> count, match |-> match]
                  ELSE ScanOptions(o, i + 2, count, Some(String(Arg(o, i + 1))))
             ELSE [bad |-> Some(arg), thrown |-> FALSE, count |-> count, match |-> match]

\* A cursor that steps over the key at the end of each page. C10 must tell it
\* from NextCursor.
NextCursorSkipping(end, len) == IF end # NaN /\ end <= len THEN end + 1 ELSE 0

\* the cursor runScan replies with (line 392)
NextCursor(end, len) == IF end # NaN /\ end <= len THEN end ELSE 0

\* the default of COUNT (line 380)
DefaultCount == 10

\* runScan (lines 375-394)
RunScan(S, a) ==
    IF Falsy(Arg(a, 1)) THEN Error(S, wScanError)
    ELSE IF \E i \in 2..Len(a) : ~SummaryOk(a[i]) THEN Throw(S)
    ELSE LET cursor == Number(Arg(a, 1))
             r == ScanOptions(Rest(a, 2), 1, DefaultCount, None)
         IN  IF r.thrown THEN Throw(S)
             ELSE IF r.bad # None THEN Error(S, wUnknownScan \o r.bad[1])
             ELSE LET all == Keys(S.data)
                      keys == IF r.match # None THEN Filter(all, r.match[1]) ELSE all
                      end == Plus(cursor, r.count)
                  IN  Respond(S, VArr(<<VNum(NextCursor(end, Len(keys))),
                                        VArr(StrValues(Slice(keys, cursor, end)))>>))

\* runExpireat (lines 396-405), stamp already a number. On an absent key it
\* replies 0 and goes on to "data.e = stamp" with data undefined: a TypeError.
Expireat(S, key, stamp) ==
    IF ~Has(S.data, key) THEN Throw(Respond(S, VNum(0)))
    ELSE LET x == Get(S.data, key)
         IN  Respond([S EXCEPT !.data = MapSet(@, key, x.v, Some(stamp)),
                               !.changed = TRUE], VNum(1))

RunExpireat(S, a) ==
    IF ~StringOk(Arg(a, 1)) THEN Throw(S)
    ELSE Expireat(S, String(Arg(a, 1)), Number(Arg(a, 2)))

\* runExpire, runPexpire (lines 407-419)
RunExpire(S, a) ==
    IF ~StringOk(Arg(a, 1)) THEN Throw(S)
    ELSE Expireat(S, String(Arg(a, 1)), Plus(S.now, Times(Number(Arg(a, 2)), 1000)))

RunPexpire(S, a) ==
    IF ~StringOk(Arg(a, 1)) THEN Throw(S)
    ELSE Expireat(S, String(Arg(a, 1)), Plus(S.now, Number(Arg(a, 2))))

\* Math.floor(x / 1000)
FloorSeconds(x) == IF x = NaN THEN NaN ELSE x \div 1000

\* runTtl, runPttl (lines 421-437)
RunTtl(S, a) ==
    IF ~StringOk(Arg(a, 1)) THEN Throw(S)
    ELSE IF ~Has(S.data, String(Arg(a, 1))) THEN Respond(S, VNum(0 - 2))
    ELSE LET x == Get(S.data, String(Arg(a, 1)))
         IN  IF ~ExpirySet(x.e) THEN Respond(S, VNum(0 - 1))
             ELSE Respond(S, VNum(FloorSeconds(x.e[1] - S.now)))

RunPttl(S, a) ==
    IF ~StringOk(Arg(a, 1)) THEN Throw(S)
    ELSE IF ~Has(S.data, String(Arg(a, 1))) THEN Respond(S, VNum(0 - 2))
    ELSE LET x == Get(S.data, String(Arg(a, 1)))
         IN  IF ~ExpirySet(x.e) THEN Respond(S, VNum(0 - 1))
             ELSE Respond(S, VNum(x.e[1] - S.now))

\* the command runDumpall writes for one entry (lines 444-448)
DumpCommand(x, t) ==
    VArr(<<VStr(wSET), VStr(x.k), x.v>>
         \o (IF ExpirySet(x.e) /\ x.e[1] > t
             THEN <<VStr(wPX), VNum(x.e[1] - t)>> ELSE <<>>))

RECURSIVE DumpEntries(_, _, _)
DumpEntries(S, d, i) ==
    IF i > Len(d) THEN S
    ELSE DumpEntries(Respond(S, DumpCommand(d[i], S.now)), d, i + 1)

\* runDumpall (lines 439-451)
RunDumpall(S, a) == DumpEntries(Respond(S, VArr(<<VStr(wFLUSHDB)>>)), S.data, 1)

\* runQuit (lines 453-462): end() on the inbound and on the outbound stream
RunQuit(S, a) == [S EXCEPT !.c.ended = TRUE]

----------------------------------------------------------------------------
(* The dispatcher: run (lines 164-172) *)

\* 'run' + first letter in upper case + the rest in lower case, without 'run'
MethodText(command) ==
    IF command = <<>> THEN <<>>
    ELSE <<Upper(command[1])>> \o ToLowerCase(Tail(command))

RECURSIVE Run(_, _)

\* this[method].apply(this, args)
Invoke(S, m, a) ==
    CASE m = "run" -> Run(S, Arg(a, 1))
      [] m = "runInfo" -> RunInfo(S, a)
      [] m = "runEcho" -> RunEcho(S, a)
      [] m = "runSave" -> RunSave(S, a)
      [] m = "runSelect" -> RunSelect(S, a)
      [] m = "runFlushall" -> RunFlushall(S, a)
      [] m = "runFlushdb" -> RunFlushdb(S, a)
      [] m = "runDbsize" -> RunDbsize(S, a)
      [] m = "runClient" -> RunClient(S, a)
      [] m = "runPing" -> RunPing(S, a)
      [] m = "runExists" -> RunExists(S, a)
      [] m = "runType" -> RunType(S, a)
      [] m = "runGet" -> RunGet(S, a)
      [] m = "runMget" -> RunMget(S, a)
      [] m = "runSetex" -> RunSetex(S, a)
      [] m = "runPsetex" -> RunPsetex(S, a)
      [] m = "runSet" -> RunSet(S, a)
      [] m = "runMset" -> RunMset(S, a)
      [] m = "runMsetnx" -> RunMsetnx(S, a)
      [] m = "runDel" -> RunDel(S, a)
      [] m = "runKeys" -> RunKeys(S, a)
      [] m = "runScan" -> RunScan(S, a)
      [] m = "runExpireat" -> RunExpireat(S, a)
      [] m = "runExpire" -> RunExpire(S, a)
      [] m = "runPexpire" -> RunPexpire(S, a)
      [] m = "runTtl" -> RunTtl(S, a)
      [] m = "runPttl" -> RunPttl(S, a)
      [] m = "runDumpall" -> RunDumpall(S, a)
      [] m = "runQuit" -> RunQuit(S, a)

\* What run does with its argument. A command that is no text after
\* "command.toString()" has no slice/toUpperCase that gives text: a TypeError.
Dispatch(S, item) ==
    LET args == IF item.t = "arr" THEN item.a ELSE <<item>>
        first == Arg(args, 1)
        command == IF first.t = "buf" THEN VStr(first.b) ELSE first
    IN  IF command.t # "str" THEN [s |-> Throw(S), m |-> ""]
        ELSE LET m == MethodOf(MethodText(command.b))
             IN  IF m = "" THEN [s |-> Error(S, wUnknownCommand \o command.b), m |-> ""]
                 ELSE [s |-> Invoke(S, m, Tail(args)), m |-> m]

\* run, and the record of it kept for the properties: the frame, the method
\* invoked, and the keyspace, the dirty flag and the replies before and after
Recorded(S, item, m, T) ==
    [T EXCEPT !.trace = Append(@,
        [ frame |-> item, method |-> m,
          pre |-> S.data, preChanged |-> S.changed,
          post |-> T.data, postChanged |-> T.changed,
          replies |-> SubSeq(T.replies, Len(S.replies) + 1, Len(T.replies)),
          ended |-> S.c.ended,
          saves |-> T.saves - S.saves,
          thrown |-> T.thrown ])]

Traced(S, item, r) == Recorded(S, item, r.m, r.s)

Run(S, item) == Traced(S, item, Dispatch(S, item))

----------------------------------------------------------------------------
(* The frame decoder: parse, append, item, push (lines 62-162) *)

\* push (lines 154-162)
RECURSIVE Push(_, _)
Push(S, item) ==
    LET st == S.c.stack
        n == Len(st)
    IN  IF n = 0 THEN Run(S, item)
        ELSE LET array == Append(st[n].a, item)
             IN  IF Len(array) = st[n].size
                 THEN Push([S EXCEPT !.c.stack = SubSeq(st, 1, n - 1)], VArr(array))
                 ELSE [S EXCEPT !.c.stack[n].a = array]

\* item (lines 133-152); line is None for null
Item(S, type, line) ==
    IF type = ARRAY
    THEN [S EXCEPT !.c.stack = Append(@, [size |-> ParseInt(line[1]), a |-> <<>>])]
    ELSE Push(S, CASE type = NUMBER -> VNum(ParseInt(line[1]))
                   [] type \in {SIMPLE, ERROR} -> VStr(line[1])
                   [] OTHER -> IF line = None THEN VNull ELSE VBuf(line[1]))

\* append (lines 128-131), with the slice already taken
AppendLine(S, part) ==
    [S EXCEPT !.c.line = IF @ = None THEN Some(part) ELSE Some(@[1] \o part)]

\* data.indexOf(CR, p), 0-based; -1 when there is none
IndexOfCR(d, p) ==
    IF \E i \in (p + 1)..Len(d) : d[i] = CR
    THEN (CHOOSE i \in (p + 1)..Len(d) : d[i] = CR /\ \A j \in (p + 1)..(i - 1) : d[j] # CR) - 1
    ELSE 0 - 1

\* One turn of the loop of parse from offset p (0-based) of chunk d, and the
\* turns after it. this.type is reset only after item returns, so it keeps
\* its value when item throws.
RECURSIVE ParseFrom(_, _, _)

\* after item returns: "this.type = null; continue", unless item threw
Continue(S, d, p) ==
    IF S.thrown THEN S ELSE ParseFrom([S EXCEPT !.c.type = 0], d, p)

ParseFrom(S, d, p) ==
    IF S.thrown \/ S.hung \/ ~(p < Len(d)) THEN S
    ELSE IF S.c.type = 0 THEN
        \* choose first char as data type (lines 67-81)
        LET t == d[p + 1]
        IN  IF t = CR THEN ParseFrom(S, d, p + 2)
            ELSE IF t \notin TypeBytes THEN Throw([S EXCEPT !.c.type = t])
            ELSE ParseFrom([S EXCEPT !.c.type = t, !.c.line = None, !.c.length = None],
                           d, p + 1)
    ELSE IF S.c.type = BufferMode THEN
        \* collect buffer content (lines 84-96)
        LET length == S.c.length[1]
            have == IF S.c.line = None THEN 0 ELSE Len(S.c.line[1])
        IN  IF length = NaN THEN AppendLine(S, <<>>)
            ELSE IF length - have < 0 THEN [S EXCEPT !.hung = TRUE]
            ELSE LET bytesToCopy == Min(length - have, Len(d) - p)
                     S1 == AppendLine(S, SubSeq(d, p + 1, p + bytesToCopy))
                     p1 == p + bytesToCopy
                 IN  IF Len(S1.c.line[1]) = length
                     THEN Continue(Item(S1, BUFFER, S1.c.line), d, p1 + 2)
                     ELSE ParseFrom(S1, d, p1)
    ELSE
        \* collect type data to line end (lines 99-124)
        LET lineEnd == IndexOfCR(d, p)
        IN  IF lineEnd = 0 - 1 THEN AppendLine(S, SubSeq(d, p + 1, Len(d)))
            ELSE LET S1 == AppendLine(S, SubSeq(d, p + 1, lineEnd))
                     p1 == lineEnd + 2
                 IN  IF S1.c.type = BUFFER
                     THEN LET length == ParseInt(S1.c.line[1])
                          IN  IF length = 0 - 1
                              THEN Continue(Item([S1 EXCEPT !.c.length = Some(length)],
                                                 0, None), d, p1)
                              ELSE ParseFrom([S1 EXCEPT !.c.length = Some(length),
                                                        !.c.type = BufferMode,
                                                        !.c.line = None], d, p1)
                     ELSE Continue(Item(S1, S1.c.type, S1.c.line), d, p1)

\* parse (lines 62-126)
Parse(S, d) == ParseFrom(S, d, 0)

----------------------------------------------------------------------------
(* The server process and its events *)

\* Date.now() when the process starts
StartTime == 5

\* the client sockets
Conns == {1, 2}

wLoader == <<76, 79, 65, 68, 69, 82>>
wSaver == <<83, 65, 86, 69, 82>>

\* a command as a client sends it: an array of bulk strings
Request(words) == Encode(VArr([i \in 1..Len(words) |-> VBuf(words[i])]))

\* the two writes of save (lines 513-514)
DumpallChunk == <<ARRAY, 49>> \o CRLF \o <<SIMPLE>> \o <<68, 85, 77, 80, 65, 76, 76>> \o CRLF
QuitChunk == <<ARRAY, 49>> \o CRLF \o <<SIMPLE>> \o <<81, 85, 73, 84>> \o CRLF

\* What a SAVER connection writes to the snapshot file: the DUMPALL and the
\* QUIT of save, decoded and dispatched like any other bytes
SnapshotBytes(d, t) ==
    Parse(Parse(Handler(NewConn(wSaver, TRUE), d, FALSE, t), DumpallChunk), QuitChunk).out

\* last when no handler has run since the previous record was dropped
NoLast == [op |-> "none", conn |-> 0, trace |-> <<>>, out |-> <<>>, thrown |-> FALSE]
NoNet == [stream |-> <<>>, pos |-> 0, frames |-> <<>>, whole |-> <<>>]
\* kept: the snapshot file is a regular file, so that what save writes can be
\* read back; FALSE for a file that keeps nothing (as /dev/null does), which
\* is how the specifications that never restart the process run the server
NoBoot == [kept |-> FALSE, pending |-> FALSE, loaded |-> FALSE, clean |-> TRUE,
           dumped |-> <<>>, dumpedAt |-> 0, loadedAt |-> 0, cmds |-> 0, restarts |-> 0]
NoScan == [state |-> "off", cursor |-> 0, count |-> 0, match |-> None,
           seen |-> <<>>]

\* new RedisServer (lines 466-492) with no snapshot to load, and the clients connected
Started ==
    /\ data = <<>>
    /\ changed = FALSE
    /\ now = StartTime
    /\ running = TRUE
    /\ conns = [c \in Conns |-> NewConn(ClientName, TRUE)]
    /\ file = <<>>
    /\ last = NoLast

\* no record of a handler is pending: the events of the server are taken one
\* at a time, each followed by Drain
Idle == running /\ last.op = "none"

\* The bytes the last handler wrote have left for the client: the record of
\* the handler is dropped. It changes nothing of the server.
Drain ==
    /\ last.op # "none"
    /\ last' = NoLast
    /\ UNCHANGED <<data, changed, now, running, conns, file, net, boot, scan, calls>>

\* The decoder fields a handler leaves behind. With this.type null, this.line
\* and this.length are dead: lines 77-78 overwrite them before anything reads
\* them, so their last values are not kept.
Settle(c) == IF c.type = 0 THEN [c EXCEPT !.line = None, !.length = None] ELSE c

\* what save leaves in the snapshot file
Written(d, t) == IF boot.kept THEN SnapshotBytes(d, t) ELSE file

\* The 'data' handler of a client socket (lines 40-42) for one chunk: parse,
\* with every command it completes run to its end. An exception that leaves
\* the handler is caught by nobody and ends the process. A save started by
\* the handler writes the file from the keyspace the handler leaves.
Returned(c, S) ==
    LET saved == S.saves > 0 /\ ~S.thrown /\ ~S.hung
    IN  /\ data' = S.data
        /\ changed' = S.changed
        /\ conns' = [conns EXCEPT ![c] = Settle(S.c)]
        /\ running' = ~(S.thrown \/ S.hung)
        /\ file' = IF saved THEN Written(S.data, now) ELSE file
        /\ boot' = [boot EXCEPT
                      !.dumped = IF saved /\ boot.kept THEN S.data ELSE @,
                      !.dumpedAt = IF saved /\ boot.kept THEN now ELSE @,
                      !.clean = @ /\ ~boot.pending,
                      !.cmds = IF boot.kept THEN @ + 1 ELSE @]
        /\ last' = [op |-> "data", conn |-> c, trace |-> S.trace,
                    out |-> S.out, thrown |-> S.thrown]

Receive(c, chunk) ==
    /\ Idle
    /\ Returned(c, Parse(Handler(conns[c], data, changed, now), chunk))
    /\ UNCHANGED <<now, scan, calls>>

Data(c, chunk) == Receive(c, chunk) /\ UNCHANGED net

\* The save timer (line 490): save (lines 505-516)
Save ==
    /\ Idle
    /\ changed
    /\ changed' = FALSE
    /\ file' = Written(data, now)
    /\ boot' = IF boot.kept THEN [boot EXCEPT !.dumped = data, !.dumpedAt = now] ELSE boot
    /\ last' = [NoLast EXCEPT !.op = "save"]
    /\ UNCHANGED <<data, now, running, conns, net, scan, calls>>

\* the commands clients send in Spec
Requests == {
    <<<<83, 69, 84>>, <<97>>, <<120>>>>,    \* SET a x
    <<<<83, 69, 84>>, <<98>>, <<121>>>>,    \* SET b y
    <<<<83, 69, 84>>, <<97>>, <<121>>, <<78, 88>>>>,    \* SET a y NX
    <<<<83, 69, 84>>, <<98>>, <<120>>, <<78, 88>>>>,    \* SET b x NX
    <<<<83, 69, 84>>, <<97>>, <<121>>, <<88, 88>>>>,    \* SET a y XX
    <<<<83, 69, 84>>, <<98>>, <<120>>, <<88, 88>>>>,    \* SET b x XX
    <<<<115, 101, 116>>, <<97>>, <<120>>, <<112, 120>>, <<49>>>>,    \* set a x px 1
    <<<<83, 69, 84, 69, 88>>, <<98>>, <<49>>, <<121>>>>,    \* SETEX b 1 y
    <<<<80, 83, 69, 84, 69, 88>>, <<97>>, <<49>>, <<121>>>>,    \* PSETEX a 1 y
    <<<<77, 83, 69, 84>>, <<97>>, <<121>>, <<98>>, <<120>>>>,    \* MSET a y b x
    <<<<77, 83, 69, 84, 78, 88>>, <<97>>, <<120>>, <<98>>, <<121>>>>,    \* MSETNX a x b y
    <<<<77, 83, 69, 84, 78, 88>>, <<98>>, <<120>>, <<97>>, <<121>>>>,    \* MSETNX b x a y
    <<<<77, 83, 69, 84, 78, 88>>, <<98>>, <<121>>, <<98>>, <<120>>>>,    \* MSETNX b y b x
    <<<<68, 69, 76>>, <<97>>>>,    \* DEL a
    <<<<68, 69, 76>>, <<98>>, <<97>>>>,    \* DEL b a
    <<<<68, 69, 76>>, <<97>>, <<97>>>>,    \* DEL a a
    <<<<68, 69, 76>>, <<97>>, <<99>>>>,    \* DEL a c
    <<<<69, 88, 80, 73, 82, 69>>, <<97>>, <<49>>>>,    \* EXPIRE a 1
    <<<<80, 69, 88, 80, 73, 82, 69>>, <<98>>, <<49>>>>,    \* PEXPIRE b 1
    <<<<69, 88, 80, 73, 82, 69, 65, 84>>, <<97>>, <<49>>>>,    \* EXPIREAT a 1
    <<<<70, 76, 85, 83, 72, 65, 76, 76>>>>,    \* FLUSHALL
    <<<<70, 108, 117, 115, 104, 68, 98>>>>,    \* FlushDb
    <<<<80, 73, 78, 71>>>>,    \* PING
    <<<<83, 65, 86, 69>>>>,    \* SAVE
    <<<<70, 79, 79>>, <<97>>>>    \* FOO a
}

\* chunks that hold one frame that is no array of bulk strings
RawFrames == {
    <<SIMPLE, 80, 73, 78, 71>> \o CRLF,       \* +PING
    <<SIMPLE, 66, 65, 82>> \o CRLF,           \* +BAR
    <<NUMBER, 53>> \o CRLF,                   \* :5
    <<BUFFER, 45, 49>> \o CRLF,               \* $-1
    <<BUFFER, 48>> \o CRLF \o CRLF,           \* $0, the empty name
    <<ARRAY, 50>> \o CRLF \o <<BUFFER, 48>> \o CRLF \o CRLF
        \o <<BUFFER, 52>> \o CRLF \o <<80, 73, 78, 71>> \o CRLF  \* ["", "PING"]
}

\* chunks that start with a byte that is no type
BadChunks == { <<88>> \o CRLF }

Command(c) == \E r \in Requests : Data(c, Request(r))
Raw(c) == \E chunk \in RawFrames : Data(c, chunk)
Bad(c) == \E chunk \in BadChunks : Data(c, chunk)

Init ==
    /\ Started
    /\ net = NoNet
    /\ boot = NoBoot
    /\ scan = NoScan
    /\ calls = 0

Next ==
    \/ \E c \in Conns : Command(c)
    \/ \E c \in Conns : Raw(c)
    \/ \E c \in Conns : Bad(c)
    \/ Save
    \/ Drain

Spec == Init /\ [][Next]_vars

----------------------------------------------------------------------------
(* SpecParse: one client delivers a stream of frames in chunks of any sizes *)

\* the streams a client delivers: whole, valid frames one after another
Streams == {
    \* SET a x, then the inline +PING
    Request(<<<<83, 69, 84>>, <<97>>, <<120>>>>) \o <<SIMPLE, 80, 73, 78, 71>> \o CRLF,
    \* ECHO of a bulk string of ten bytes, then ECHO of the integer 12
    Request(<<<<69, 67, 72, 79>>, <<97, 98, 99, 100, 101, 102, 103, 104, 105, 106>>>>)
        \o <<ARRAY, 50>> \o CRLF \o <<BUFFER, 52>> \o CRLF \o <<69, 67, 72, 79>> \o CRLF
        \o <<NUMBER, 49, 50>> \o CRLF,
    \* ECHO of null, ECHO of the empty bulk string, ECHO of a nested array
    <<ARRAY, 50>> \o CRLF \o <<BUFFER, 52>> \o CRLF \o <<69, 67, 72, 79>> \o CRLF
        \o <<BUFFER, 45, 49>> \o CRLF
        \o Request(<<<<69, 67, 72, 79>>, <<>>>>)
        \o <<ARRAY, 50>> \o CRLF \o <<BUFFER, 52>> \o CRLF \o <<69, 67, 72, 79>> \o CRLF
        \o <<ARRAY, 49>> \o CRLF \o <<NUMBER, 55>> \o CRLF
}

FramesOf(trace) == [i \in 1..Len(trace) |-> trace[i].frame]

\* the frames run is handed when a new connection gets the stream as one chunk
WholeFrames(stream) ==
    FramesOf(Parse(Handler(NewConn(ClientName, TRUE), <<>>, FALSE, StartTime), stream).trace)

\* the next n bytes of the stream arrive as one chunk
Feed(n) ==
    /\ Receive(1, SubSeq(net.stream, net.pos + 1, net.pos + n))
    /\ net' = [net EXCEPT !.pos = @ + n, !.frames = @ \o FramesOf(last'.trace)]

InitParse ==
    /\ Started
    /\ net \in {[stream |-> s, pos |-> 0, frames |-> <<>>, whole |-> WholeFrames(s)] :
                    s \in Streams}
    /\ boot = NoBoot
    /\ scan = NoScan
    /\ calls = 0

NextParse ==
    \/ \E n \in 1..(Len(net.stream) - net.pos) : Feed(n)
    \/ Drain

SpecParse == InitParse /\ [][NextParse]_vars

----------------------------------------------------------------------------
(* SpecPersist: a server with a snapshot file that is saved, stopped,      *)
(* started again and loaded                                                *)

\* how far the clock runs past StartTime
MaxTicks == 2
\* how many chunks clients send in one behaviour
MaxCmds == 2
\* how many times the process is started again
MaxRestarts == 1

\* a key of two lines
kLines == <<97, 13, 10, 98>>

PersistRequests == {
    <<<<83, 69, 84>>, <<97>>, <<120>>, <<80, 88>>, <<49>>>>,    \* SET a x PX 1
    <<<<83, 69, 84>>, <<98>>, <<121>>>>,                  \* SET b y
    <<<<83, 69, 84>>, kLines, <<120>>>>,                  \* SET "a\r\nb" x
    <<<<70, 76, 85, 83, 72, 65, 76, 76>>>>                               \* FLUSHALL
}

PersistCommand(c) ==
    /\ boot.cmds < MaxCmds
    /\ \E r \in PersistRequests : Data(c, Request(r))

\* the clock
Tick ==
    /\ Idle
    /\ now < StartTime + MaxTicks
    /\ now' = now + 1
    /\ UNCHANGED <<data, changed, running, conns, file, last, net, boot, scan, calls>>

\* what the sweep leaves (lines 520-525)
Swept(d, t) == SelectSeq(d, LAMBDA x : ~(ExpirySet(x.e) /\ x.e[1] < t))

\* The expire timer (line 491): expire (lines 518-526)
Expire ==
    /\ Idle
    /\ data' = Swept(data, now)
    /\ data' # data
    /\ last' = [NoLast EXCEPT !.op = "expire"]
    /\ UNCHANGED <<changed, now, running, conns, file, net, boot, scan, calls>>

\* The process is stopped and started again: new RedisServer (lines 474-492).
\* The keyspace is a new Map, load (lines 494-503) opens the snapshot, and its
\* bytes arrive later, in a 'data' event of the LOADER connection.
Restart ==
    /\ last.op = "none"
    /\ boot.restarts < MaxRestarts
    /\ data' = <<>>
    /\ changed' = FALSE
    /\ running' = TRUE
    /\ conns' = [c \in Conns |-> NewConn(ClientName, TRUE)]
    /\ boot' = [boot EXCEPT !.pending = TRUE, !.loaded = FALSE, !.clean = TRUE,
                            !.restarts = @ + 1]
    /\ UNCHANGED <<now, file, last, net, scan, calls>>

\* The 'data' event of the LOADER connection (line 499): the snapshot, which
\* is shorter than one read of the file stream, parsed and replayed with no sink
Loaded(S) ==
    /\ data' = S.data
    /\ changed' = S.changed
    /\ running' = ~(S.thrown \/ S.hung)
    /\ last' = [op |-> "load", conn |-> 0, trace |-> S.trace,
                out |-> S.out, thrown |-> S.thrown]

Load ==
    /\ Idle
    /\ boot.pending
    /\ Loaded(Parse(Handler(NewConn(wLoader, FALSE), data, changed, now), file))
    /\ boot' = [boot EXCEPT !.pending = FALSE, !.loaded = TRUE, !.loadedAt = now]
    /\ UNCHANGED <<now, conns, file, net, scan, calls>>

InitPersist ==
    /\ Started
    /\ net = NoNet
    /\ boot = [NoBoot EXCEPT !.kept = TRUE]
    /\ scan = NoScan
    /\ calls = 0

NextPersist ==
    \/ \E c \in Conns : PersistCommand(c)
    \/ Tick
    \/ Expire
    \/ Save
    \/ Restart
    \/ Load
    \/ Drain

SpecPersist == InitPersist /\ [][NextPersist]_vars

----------------------------------------------------------------------------
(* SpecScan: a client fills the keyspace, then iterates SCAN over it *)

\* how many keys the keyspace gets
MaxKeys == 3
\* the largest COUNT the client asks for
MaxCount == 2

ScanKeys == {<<97>>, <<98>>, <<97, 98>>, <<98, 97>>, <<99>>}   \* a b ab ba c
ScanPatterns == {<<97, 42>>, <<63, 98>>}                        \* a*  ?b

\* the client stores one more key
Fill ==
    /\ scan.state = "off"
    /\ Len(data) < MaxKeys
    /\ \E k \in ScanKeys : ~Has(data, k) /\ Data(1, Request(<<<<83, 69, 84>>, k, <<120>>>>))

\* the client starts an iteration at cursor 0
ScanStart ==
    /\ Idle
    /\ scan.state = "off"
    /\ \E n \in 1..MaxCount, m \in {None} \cup {Some(q) : q \in ScanPatterns} :
          scan' = [state |-> "on", cursor |-> 0, count |-> n, match |-> m,
                   seen |-> <<>>]
    /\ calls' = 0
    /\ UNCHANGED <<data, changed, now, running, conns, file, last, net, boot>>

ScanRequest ==
    <<<<83, 67, 65, 78>>, NumStr(scan.cursor), <<67, 79, 85, 78, 84>>, NumStr(scan.count)>>
        \o (IF scan.match = None THEN <<>> ELSE <<<<77, 65, 84, 67, 72>>, scan.match[1]>>)

\* One call of the iteration: the client sends SCAN with the cursor it holds
\* and takes the cursor and the keys of the reply
Replied(S) ==
    LET reply == S.replies[1]
        ok == ~S.thrown /\ Len(S.replies) = 1 /\ reply.t = "arr"
    IN  /\ data' = S.data
        /\ changed' = S.changed
        /\ conns' = [conns EXCEPT ![1] = Settle(S.c)]
        /\ running' = ~(S.thrown \/ S.hung)
        /\ scan' = IF ~ok THEN [scan EXCEPT !.state = "failed"]
                   ELSE [scan EXCEPT
                           !.cursor = reply.a[1].n,
                           !.seen = @ \o [i \in 1..Len(reply.a[2].a) |-> reply.a[2].a[i].b],
                           !.state = IF reply.a[1].n = 0 THEN "done" ELSE "on"]

ScanStep ==
    /\ running
    /\ scan.state = "on"
    /\ Replied(Parse(Handler(conns[1], data, changed, now), Request(ScanRequest)))
    /\ calls' = calls + 1
    /\ UNCHANGED <<now, file, last, net, boot>>

\* The client makes one more call. Of the steps of NextScan only ScanStep
\* raises calls, and ScanStep can be taken whenever a call can be made.
ScanCall ==
    /\ running
    /\ scan.state = "on"
    /\ calls' = calls + 1

InitScan ==
    /\ Started
    /\ net = NoNet
    /\ boot = NoBoot
    /\ scan = NoScan
    /\ calls = 0

NextScan ==
    \/ Fill
    \/ Drain
    \/ ScanStart
    \/ ScanStep

\* a client that iterates goes on calling
SpecScan == InitScan /\ [][NextScan]_vars /\ WF_calls(ScanCall)

----------------------------------------------------------------------------
(* Properties of the dispatcher and the keyspace commands, under Spec *)

\* the records of the frames the last handler handed to run
Dispatched == {last.trace[i] : i \in 1..Len(last.trace)}

\* the arguments of a dispatched frame, command name first
FrameArgs(x) == IF x.frame.t = "arr" THEN x.frame.a ELSE <<x.frame>>

\* the command name of a frame is text
NamedByText(x) == Len(FrameArgs(x)) >= 1 /\ FrameArgs(x)[1].t \in {"buf", "str"}

\* the frame names one of the commands the server supports
Supported(x) ==
    /\ NamedByText(x)
    /\ MethodOf(MethodText(FrameArgs(x)[1].b)) \notin {"", "run"}

EntryOf(d, k) == IF Has(d, k) THEN <<Get(d, k)>> ELSE <<>>

\* C2: a frame whose command name is none of the supported commands (the
\* empty name and a name that is no text included) gets exactly one error
\* reply 'UNKNOWN COMMAND <name>', runs no handler, leaves the keyspace as it
\* was, and the connection goes on.
C2_UnknownCommandIsAnError ==
    \A x \in Dispatched :
        ~Supported(x) =>
            /\ ~x.thrown
            /\ x.method = ""
            /\ Len(x.replies) = 1
            /\ x.replies[1].t = "err"
            /\ NamedByText(x) => x.replies[1].b = wUnknownCommand \o FrameArgs(x)[1].b
            /\ x.post = x.pre
            /\ running

\* the last handler ended on a byte that is no type
UnknownTypeFault ==
    /\ last.op = "data"
    /\ last.thrown
    /\ conns[last.conn].type \notin (TypeBytes \cup {0, BufferMode})

\* C3: a byte that is no type ends the connection it came from and nothing
\* else: that connection is closed, the process runs on with the other
\* connections open.
C3_UnknownTypeEndsOnlyItsConnection ==
    UnknownTypeFault =>
        /\ running
        /\ conns[last.conn].ended
        /\ \A c \in Conns \ {last.conn} : ~conns[c].ended

\* a SET of key and value with the one option word
SetWith(x, word) ==
    /\ x.method = "runSet"
    /\ Len(FrameArgs(x)) = 4
    /\ ToUpperCase(String(FrameArgs(x)[4])) = word

Refused(x) == x.replies = <<VNull>> /\ x.post = x.pre

Stored(x) ==
    LET key == String(FrameArgs(x)[2])
    IN  /\ x.replies = <<VStr(wOK)>>
        /\ EntryOf(x.post, key) = <<[k |-> key, v |-> FrameArgs(x)[3], e |-> None]>>

\* C4: SET k v NX replies null and changes nothing if and only if k exists,
\* SET k v XX replies null and changes nothing if and only if k does not
\* exist; otherwise the entry is stored and the reply is OK.
C4_SetNXAndXX ==
    \A x \in Dispatched :
        /\ SetWith(x, wNX) =>
              IF Has(x.pre, String(FrameArgs(x)[2])) THEN Refused(x) ELSE Stored(x)
        /\ SetWith(x, wXX) =>
              IF ~Has(x.pre, String(FrameArgs(x)[2])) THEN Refused(x) ELSE Stored(x)

\* C7: every command that changes the keyspace leaves the dirty flag set,
\* and a set flag stays set through every command that starts no save.
C7_MutationSetsDirty ==
    \A x \in Dispatched :
        /\ x.post # x.pre => x.postChanged
        /\ (x.preChanged /\ x.saves = 0) => x.postChanged

\* the keys and values of the pairs of an MSETNX frame
PairsOf(x) == Tail(FrameArgs(x))

\* C8: MSETNX with any of its keys present replies 0 and leaves the keyspace
\* and the dirty flag as they were; with none present it stores every pair
\* without expiry (a key given twice keeps its last value), sets the dirty
\* flag and replies 1, and touches no other key.
C8_MsetnxAllOrNothing ==
    \A x \in Dispatched :
        (x.method = "runMsetnx" /\ ~x.thrown) =>
            LET a == PairsOf(x)
                key(i) == String(a[i])
                lastOf(i) == \A j \in PairKeys(a) : j > i => key(j) # key(i)
            IN  IF \E i \in PairKeys(a) : Has(x.pre, key(i))
                THEN /\ x.replies = <<VNum(0)>>
                     /\ x.post = x.pre
                     /\ x.postChanged = x.preChanged
                ELSE /\ x.replies = <<VNum(1)>>
                     /\ x.postChanged
                     /\ \A i \in PairKeys(a) : lastOf(i) =>
                            EntryOf(x.post, key(i))
                                = <<[k |-> key(i), v |-> a[i + 1], e |-> None]>>
                     /\ \A i \in 1..Len(x.pre) : x.pre[i] \in {x.post[j] : j \in 1..Len(x.post)}
                     /\ \A j \in 1..Len(x.post) :
                            \/ x.post[j] \in {x.pre[i] : i \in 1..Len(x.pre)}
                            \/ \E i \in PairKeys(a) : key(i) = x.post[j].k

\* C8 witness: an MSETNX that found one of its keys present and another
\* absent, on a keyspace a save had left clean
C8_Witness ==
    \E x \in Dispatched :
        /\ x.method = "runMsetnx"
        /\ ~x.preChanged
        /\ x.replies = <<VNum(0)>>
        /\ \E i \in PairKeys(PairsOf(x)) : Has(x.pre, String(PairsOf(x)[i]))
        /\ \E i \in PairKeys(PairsOf(x)) : ~Has(x.pre, String(PairsOf(x)[i]))

\* C9: DEL replies with the number of entries it removed (the size before
\* minus the size after), and exactly the listed keys are gone, whatever mix
\* of present, absent and repeated keys it is given.
C9_DelCountsRemovals ==
    \A x \in Dispatched :
        (x.method = "runDel" /\ ~x.thrown) =>
            LET listed == {String(FrameArgs(x)[i]) : i \in 2..Len(FrameArgs(x))}
            IN  /\ x.replies = <<VNum(Len(x.pre) - Len(x.post))>>
                /\ \A k \in listed : ~Has(x.post, k)
                /\ \A i \in 1..Len(x.pre) :
                       x.pre[i].k \notin listed => x.pre[i] \in {x.post[j] : j \in 1..Len(x.post)}
                /\ Len(x.post) = Cardinality({i \in 1..Len(x.pre) : x.pre[i].k \notin listed})

----------------------------------------------------------------------------
(* Properties of the decoder, under SpecParse *)

\* C1: however the stream is cut into chunks, no fault is raised, and once
\* the whole stream has arrived run has been handed the frames it is handed
\* when the stream arrives as one chunk.
C1_ChunkingMakesNoDifference ==
    /\ running
    /\ net.pos = Len(net.stream) => net.frames = net.whole

----------------------------------------------------------------------------
(* Properties of the snapshot, under SpecPersist *)

\* the process was started again, loaded the snapshot before any client sent
\* anything, and the load has just ended
JustLoaded == last.op = "load" /\ boot.clean

\* the entries of the keyspace the snapshot was written from
DumpedEntries == {boot.dumped[i] : i \in 1..Len(boot.dumped)}

\* the entry had no expiry, or one still in the future, when it was dumped
LiveAtDump(x) == x.e = None \/ x.e[1] > boot.dumpedAt

\* C5: after a save and a load into an empty keyspace, every key that was
\* not expired at dump time is there with its value, without expiry if it had
\* none and else with the expiry load time + remaining milliseconds at dump
\* time; and no key is there that was absent at dump time.
C5_SaveLoadRoundTrip ==
    JustLoaded =>
        /\ \A x \in DumpedEntries : LiveAtDump(x) =>
              EntryOf(data, x.k) =
                  <<[k |-> x.k, v |-> x.v,
                     e |-> IF x.e = None THEN None
                           ELSE Some(boot.loadedAt + (x.e[1] - boot.dumpedAt))]>>
        /\ \A i \in 1..Len(data) : \E x \in DumpedEntries : x.k = data[i].k

\* C6: a key whose expiry had passed at dump time, and which the sweep had
\* not removed yet, is not in the keyspace after the load.
C6_ExpiredKeyIsNotReloaded ==
    JustLoaded =>
        \A x \in DumpedEntries :
            (x.e # None /\ x.e[1] < boot.dumpedAt) => ~Has(data, x.k)

----------------------------------------------------------------------------
(* Properties of the SCAN iteration, under SpecScan *)

\* the keys of the keyspace the iteration is to return
Wanted ==
    IF scan.match = None THEN Keys(data) ELSE Filter(Keys(data), scan.match[1])

\* C10: an iteration of SCAN from cursor 0 with COUNT >= 1 over a keyspace
\* that does not change gets cursor 0 after finitely many calls, and by then
\* it has returned every (matching) key exactly once and no other key.
C10_ScanTerminatesAndIsComplete ==
    /\ [](scan.state = "on" => <>(scan.state = "done"))
    /\ [](scan.state = "done" =>
            /\ {scan.seen[i] : i \in 1..Len(scan.seen)} = {Wanted[i] : i \in 1..Len(Wanted)}
            /\ Len(scan.seen) = Len(Wanted))

\* C10 witness: an iteration over three keys that took more than one call,
\* one of them ending exactly at the last key
C10_Witness ==
    /\ scan.state = "done"
    /\ calls >= 2
    /\ Len(scan.seen) >= 2
    /\ Len(scan.seen) = (calls - 1) * scan.count

----------------------------------------------------------------------------
(* Properties of the expiry commands, under Spec *)

\* C11: EXPIRE, PEXPIRE and EXPIREAT on an absent key reply 0 once, raise no
\* fault and leave the keyspace and the dirty flag as they were; on a present
\* key they set its expiry, set the dirty flag and reply 1.
C11_ExpireOnAbsentKeyIsNoOp ==
    \A x \in Dispatched :
        x.method \in {"runExpire", "runPexpire", "runExpireat"} =>
            LET key == String(FrameArgs(x)[2])
            IN  IF ~Has(x.pre, key)
                THEN /\ x.replies = <<VNum(0)>>
                     /\ ~x.thrown
                     /\ x.post = x.pre
                     /\ x.postChanged = x.preChanged
                ELSE /\ x.replies = <<VNum(1)>>
                     /\ ~x.thrown
                     /\ x.postChanged
                     /\ Has(x.post, key)
                     /\ Get(x.post, key).e # None
                     /\ Get(x.post, key).v = Get(x.pre, key).v

----------------------------------------------------------------------------
(* SpecSession: one client sends every supported command, alone or after a *)
(* QUIT in the same chunk, while the clock and the expire timer run        *)

\* one command of every run* method, on the key a
SessionRequests == {
    <<<<73, 78, 70, 79>>>>,    \* INFO
    <<<<69, 67, 72, 79>>, <<104>>>>,    \* ECHO h
    <<<<83, 65, 86, 69>>>>,    \* SAVE
    <<<<83, 69, 76, 69, 67, 84>>, <<48>>>>,    \* SELECT 0
    <<<<83, 69, 76, 69, 67, 84>>, <<49>>>>,    \* SELECT 1
    <<<<70, 76, 85, 83, 72, 65, 76, 76>>>>,    \* FLUSHALL
    <<<<70, 76, 85, 83, 72, 68, 66>>>>,    \* FLUSHDB
    <<<<68, 66, 83, 73, 90, 69>>>>,    \* DBSIZE
    <<<<67, 76, 73, 69, 78, 84>>, <<71, 69, 84, 78, 65, 77, 69>>>>,    \* CLIENT GETNAME
    <<<<80, 73, 78, 71>>>>,    \* PING
    <<<<69, 88, 73, 83, 84, 83>>, <<97>>>>,    \* EXISTS a
    <<<<84, 89, 80, 69>>, <<97>>>>,    \* TYPE a
    <<<<71, 69, 84>>, <<97>>>>,    \* GET a
    <<<<77, 71, 69, 84>>, <<97>>, <<98>>>>,    \* MGET a b
    <<<<83, 69, 84, 69, 88>>, <<97>>, <<49>>, <<120>>>>,    \* SETEX a 1 x
    <<<<80, 83, 69, 84, 69, 88>>, <<97>>, <<49>>, <<120>>>>,    \* PSETEX a 1 x
    <<<<83, 69, 84>>, <<97>>, <<120>>>>,    \* SET a x
    <<<<77, 83, 69, 84>>, <<97>>, <<120>>>>,    \* MSET a x
    <<<<77, 83, 69, 84, 78, 88>>, <<97>>, <<120>>>>,    \* MSETNX a x
    <<<<68, 69, 76>>, <<97>>>>,    \* DEL a
    <<<<75, 69, 89, 83>>, <<42>>>>,    \* KEYS *
    <<<<83, 67, 65, 78>>, <<48>>>>,    \* SCAN 0
    <<<<69, 88, 80, 73, 82, 69, 65, 84>>, <<97>>, <<48>>>>,    \* EXPIREAT a 0
    <<<<69, 88, 80, 73, 82, 69, 65, 84>>, <<97>>, <<49>>>>,    \* EXPIREAT a 1
    <<<<69, 88, 80, 73, 82, 69>>, <<97>>, <<49>>>>,    \* EXPIRE a 1
    <<<<80, 69, 88, 80, 73, 82, 69>>, <<97>>, <<49>>>>,    \* PEXPIRE a 1
    <<<<84, 84, 76>>, <<97>>>>,    \* TTL a
    <<<<80, 84, 84, 76>>, <<97>>>>,    \* PTTL a
    <<<<68, 85, 77, 80, 65, 76, 76>>>>,    \* DUMPALL
    <<<<81, 85, 73, 84>>>>    \* QUIT
}

\* QUIT and SET b y in one chunk
QuitThenSet == Request(<<<<81, 85, 73, 84>>>>) \o Request(<<<<83, 69, 84>>, <<98>>, <<121>>>>)

\* the client sends one command; it sends nothing once it was told to go
SessionCommand ==
    /\ ~conns[1].ended
    /\ \E r \in SessionRequests : Data(1, Request(r))

\* the client sends a chunk of two commands
Pipelined ==
    /\ ~conns[1].ended
    /\ Data(1, QuitThenSet)

\* The expire timer (line 491) fires, whether or not an entry has expired:
\* expire (lines 518-526)
Sweep ==
    /\ Idle
    /\ data' = Swept(data, now)
    /\ last' = [NoLast EXCEPT !.op = "expire"]
    /\ UNCHANGED <<changed, now, running, conns, file, net, boot, scan, calls>>

InitSession ==
    /\ Started
    /\ net = NoNet
    /\ boot = NoBoot
    /\ scan = NoScan
    /\ calls = 0

NextSession ==
    \/ SessionCommand
    \/ Pipelined
    \/ Tick
    \/ Sweep
    \/ Save
    \/ Drain

SpecSession == InitSession /\ [][NextSession]_vars

----------------------------------------------------------------------------
(* Properties of the replies, the expiries and the sweep, under SpecSession *)

\* C12: every supported command but QUIT and DUMPALL writes exactly one reply
\* for each invocation, and the reply of SAVE is the status OK.
C12_OneReplyPerCommand ==
    \A x \in Dispatched :
        (Supported(x) /\ x.method \notin {"runQuit", "runDumpall"} /\ ~x.ended) =>
            /\ Len(x.replies) = 1
            /\ x.method = "runSave" => x.replies = <<VStr(wOK)>>

\* C13: TTL and PTTL reply -2 for an absent key, -1 for a key with no expiry,
\* and else the expiry minus the time of the call (PTTL in milliseconds, TTL
\* in whole seconds), whatever expiry a command stored.
C13_TtlIsTimeRemaining ==
    \A x \in Dispatched :
        x.method \in {"runTtl", "runPttl"} =>
            LET key == String(FrameArgs(x)[2])
                e == Get(x.pre, key).e
            IN  x.replies =
                    IF ~Has(x.pre, key) THEN <<VNum(0 - 2)>>
                    ELSE IF e = None THEN <<VNum(0 - 1)>>
                    ELSE IF x.method = "runPttl" THEN <<VNum(e[1] - now)>>
                    ELSE <<VNum((e[1] - now) \div 1000)>>

\* C14: DBSIZE replies with the number of keys in the keyspace.
C14_DbsizeCountsKeys ==
    \A x \in Dispatched :
        x.method = "runDbsize" => x.replies = <<VNum(Len(x.pre))>>

\* C17: once QUIT was dispatched on a connection, no frame that follows it on
\* that connection runs a handler, changes the keyspace or gets a reply.
C17_NothingRunsAfterQuit ==
    \A x \in Dispatched :
        x.ended =>
            /\ x.method = ""
            /\ x.post = x.pre
            /\ x.replies = <<>>

\* C18: a sweep at time now leaves exactly the entries with no expiry or with
\* an expiry not before now, each as it was: every entry whose expiry is set
\* and before now is gone, whatever expiry a command stored.
C18_SweepRemovesThePast ==
    [][(last.op = "none" /\ last'.op = "expire") =>
          data' = SelectSeq(data, LAMBDA x : x.e = None \/ x.e[1] >= now)]_vars

----------------------------------------------------------------------------
(* SpecFrames: one client delivers, in chunks of any sizes, a stream in    *)
(* which an array header with count 0 is followed by a PING frame          *)

wPING == <<80, 73, 78, 71>>

\* the header of an array of n < 10 elements
ArrayHeader(n) == <<ARRAY, 48 + n>> \o CRLF

EmptyArrayStreams == {
    \* the empty array as a frame of its own, then PING
    ArrayHeader(0) \o Request(<<wPING>>),
    \* ECHO of the empty array, then PING
    ArrayHeader(2) \o <<BUFFER, 52>> \o CRLF \o <<69, 67, 72, 79>> \o CRLF
        \o ArrayHeader(0) \o Request(<<wPING>>)
}

InitFrames ==
    /\ Started
    /\ net \in {[stream |-> s, pos |-> 0, frames |-> <<>>, whole |-> WholeFrames(s)] :
                    s \in EmptyArrayStreams}
    /\ boot = NoBoot
    /\ scan = NoScan
    /\ calls = 0

SpecFrames == InitFrames /\ [][NextParse]_vars

----------------------------------------------------------------------------
(* Properties of the empty array, under SpecFrames *)

\* C15: an array header with count 0 is a complete item at once: no array of
\* size 0 is left in progress on the nesting stack, and once the whole stream
\* has arrived the PING frame that follows the empty array has been handed to
\* run as a frame of its own.
C15_EmptyArrayIsComplete ==
    /\ \A i \in 1..Len(conns[1].stack) : conns[1].stack[i].size # 0
    /\ net.pos = Len(net.stream) =>
           \E i \in 1..Len(net.frames) : net.frames[i] = VArr(<<VBuf(wPING)>>)

----------------------------------------------------------------------------
(* Properties of the cursor of SCAN, under SpecScan *)

\* C16: the cursor a call of SCAN replies with is the end of its window,
\* cursor + count, when keys remain beyond the window, and 0 otherwise: it is
\* 0 exactly when cursor + count is at least the number of (matching) keys.
C16_NextCursorIsZeroAtTheEnd ==
    [][(scan.state = "on" /\ calls' = calls + 1 /\ scan'.state \in {"on", "done"}) =>
          scan'.cursor = IF scan.cursor + scan.count >= Len(Wanted)
                         THEN 0
                         ELSE scan.cursor + scan.count]_vars

----------------------------------------------------------------------------
(* Properties of the start of the server, under SpecPersist *)

\* C19: between the start of the server and the end of the replay of the
\* snapshot no client command and no save is executed, so that the replay
\* starts on the empty keyspace of the new process and erases no client write.
C19_LoadIsAtomic ==
    /\ (boot.pending /\ file # <<>>) => last.op \notin {"data", "save"}
    /\ (last.op = "load" /\ last.trace # <<>>) => last.trace[1].pre = <<>>

----------------------------------------------------------------------------
(* SpecDurable: a server with a snapshot file and a save timer that keeps  *)
(* firing, and clients that send a few commands and then no more           *)

DurableRequests == {
    <<<<83, 69, 84>>, <<97>>, <<120>>>>,                  \* SET a x
    <<<<83, 69, 84>>, <<98>>, <<121>>>>,                  \* SET b y
    <<<<83, 69, 84>>, <<97>>, <<121>>>>,                  \* SET a y
    <<<<68, 69, 76>>, <<97>>>>,                           \* DEL a
    <<<<70, 76, 85, 83, 72, 65, 76, 76>>>>                \* FLUSHALL
}

DurableCommand(c) ==
    /\ boot.cmds < MaxCmds
    /\ \E r \in DurableRequests : Data(c, Request(r))

\* The save timer (line 490) fires and finds the flag set (line 506). Of the
\* steps of NextDurable only Save takes the flag down, and Save can be taken
\* whenever this can.
SaveDue ==
    /\ Idle
    /\ changed
    /\ changed' = FALSE

InitDurable ==
    /\ Started
    /\ net = NoNet
    /\ boot = [NoBoot EXCEPT !.kept = TRUE]
    /\ scan = NoScan
    /\ calls = 0

NextDurable ==
    \/ \E c \in Conns : DurableCommand(c)
    \/ Save
    \/ Drain

\* the handlers run to their end and the save timer keeps firing
SpecDurable == InitDurable /\ [][NextDurable]_vars /\ WF_vars(Drain) /\ WF_changed(SaveDue)

----------------------------------------------------------------------------
(* Properties of the snapshot over time, under SpecDurable *)

\* the keys and values a load of the snapshot file stores
FileEntries ==
    LET d == Parse(Handler(NewConn(wLoader, FALSE), <<>>, FALSE, now), file).data
    IN  {<<d[i].k, d[i].v>> : i \in 1..Len(d)}

\* the keys and values of the entries of the keyspace that have not expired
LiveEntries ==
    {<<data[i].k, data[i].v>> : i \in {j \in 1..Len(data) :
                                          data[j].e = None \/ data[j].e[1] > now}}

\* C20: once the clients send no more commands, the snapshot file comes to
\* hold exactly the keys and values of the entries of the keyspace that have
\* not expired, and it stays so.
C20_EveryChangeIsPersisted == <>[](FileEntries = LiveEntries)

====
